---------------------------- MODULE Spec2Model ----------------------------
(***************************************************************************)
(* Campus Resource Hub: the booking conflict-detection and admission       *)
(* engine (BookingDAL, the booking routes and the resource edit path).     *)
(***************************************************************************)
EXTENDS Integers, Sequences, FiniteSets, TLC

(* ------------------------------ bounds -------------------------------- *)

\* Timestamps are the integers 0..MaxTime.
MaxTime == 2

\* The bookings table holds at most MaxBookings rows.
MaxBookings == 2

\* Number of request handlers that may run at the same time.
NumProcs == 2

\* How many times the clock is read for an enrollment.
MaxClock == 3

\* How many rows the users table may hold.
MaxAccounts == 4

\* How many rows the reviews table may hold.
MaxReviews == 3

Times == 0 .. MaxTime

Procs == 1 .. NumProcs

(* --------------------------- fixed tables ----------------------------- *)

\* users table: one student and the seeded admin.
Users == {1, 2}

Role(u) == IF u = 1 THEN "student" ELSE "admin"

\* The rows of role admin, in the order a query returns them.
Admins == <<2>>

\* The email of user u, as a string of characters; user 2 is the seeded admin.
InitialEmail(u) == IF u = 1 THEN <<"s">> ELSE <<"a">>

\* Before any get_resource_rating_stats call.
NoStats == [total_reviews |-> 0, avg_tenths |-> 0, min_rating |-> 0,
            max_rating |-> 0]

\* resource_id values of the rows the resources table starts with.
InitialResources == {1, 2}

\* The columns the ORM maps for Resource (models.py): no booking_type.
ResourceColumns == {"owner_id", "status"}

\* The methods UserDAL defines (user_dal.py): no get_users_by_role.
UserDalMethods ==
    {"create_user", "get_user_by_email", "get_user_by_name",
     "get_user_by_id", "verify_user_credentials"}

ResourceStatuses == {"draft", "published", "archived"}

BookingTypes == {"open", "restricted"}

(* ------------------------------ state --------------------------------- *)

VARIABLES
    resources,   \* resource_id -> the mapped attributes of the Resource row
    configured,  \* resource_id -> booking_type the owner last submitted (history)
    bookings,    \* the bookings table; booking_id is the position
    messages,    \* the messages table
    pc,          \* handler -> where a concurrent request stands
    last,        \* the request handled by the latest step and its result
    waitlist,    \* the waitlist table: a set of rows
    clock,       \* what datetime.utcnow() gives next
    enrolled,    \* the (resource_id, user_id) pairs on the waitlist, in the
                 \* order of their enrollment (history)
    accounts,    \* the users table; user_id is the position
    reviews,     \* the reviews table; review_id is the position
    stats        \* what the latest get_resource_rating_stats call returned

vars == <<resources, configured, bookings, messages, pc, last,
          waitlist, clock, enrolled, accounts, reviews, stats>>

wvars == <<waitlist, clock, enrolled>>

rvars == <<accounts, reviews, stats>>

\* resource_id values of the rows of the resources table.
Resources == DOMAIN resources

\* resource_id values a request may carry: the rows, and one id with no row.
ResourceIdInputs == Resources \cup {Cardinality(Resources) + 1}

\* op: the route; conflict: what check_for_conflict (for a waitlist request,
\* the SELECT for an existing row) gave; dal: what the DAL call gave (for
\* update_booking_status, None is recorded as not_found when no row had the id
\* and as none when the commit failed); outcome: how the route ended.
NoRequest ==
    [op |-> "none", conflict |-> "skipped", dal |-> "skipped", outcome |-> "none"]

Idle == [phase |-> "idle", user |-> 0, resource |-> 0, start |-> 0, end |-> 0,
         status |-> "none", message |-> FALSE]

Init ==
    /\ resources = [r \in InitialResources |->
                      [owner_id |-> 2,
                       status |-> IF r = 1 THEN "published" ELSE "draft"]]
    /\ configured = [r \in InitialResources |-> "open"]
    /\ bookings = << >>
    /\ messages = << >>
    /\ pc = [p \in Procs |-> Idle]
    /\ last = NoRequest
    /\ waitlist = {}
    /\ clock = 0
    /\ enrolled = << >>
    /\ accounts = [u \in 1 .. Cardinality(Users) |->
                     [email |-> InitialEmail(u), role |-> Role(u)]]
    /\ reviews = << >>
    /\ stats = NoStats

(* ------------------------- python attribute access -------------------- *)

GetAttr(obj, name, default) == IF name \in DOMAIN obj THEN obj[name] ELSE default

HasAttr(obj, name) == name \in DOMAIN obj

(* ------------------------------ BookingDAL ---------------------------- *)

ActiveStatuses == {"pending", "approved"}

\* The WHERE clause with the boundary comparisons made non-strict: a row that
\* only touches the requested window matches.
RowMatchesAdjacent(b, r, s, e) ==
    /\ b.resource_id = r
    /\ b.status \in ActiveStatuses
    /\ \/ (b.start <= s /\ b.end >= s)
       \/ (b.start <= e /\ b.end >= e)
       \/ (b.start >= s /\ b.end <= e)

\* The WHERE clause without its status filter.
RowMatchesAnyStatus(b, r, s, e) ==
    /\ b.resource_id = r
    /\ \/ (b.start <= s /\ b.end > s)
       \/ (b.start < e /\ b.end >= e)
       \/ (b.start >= s /\ b.end <= e)

\* The WHERE clause filtering on approved rows only.
RowMatchesApprovedOnly(b, r, s, e) ==
    /\ b.resource_id = r
    /\ b.status = "approved"
    /\ \/ (b.start <= s /\ b.end > s)
       \/ (b.start < e /\ b.end >= e)
       \/ (b.start >= s /\ b.end <= e)

\* The WHERE clause without its resource_id filter.
RowMatchesAnyResource(b, r, s, e) ==
    /\ b.status \in ActiveStatuses
    /\ \/ (b.start <= s /\ b.end > s)
       \/ (b.start < e /\ b.end >= e)
       \/ (b.start >= s /\ b.end <= e)

\* The WHERE clause with the first alternative of its interval test only.
RowMatchesStartInside(b, r, s, e) ==
    /\ b.resource_id = r
    /\ b.status \in ActiveStatuses
    /\ (b.start <= s /\ b.end > s)

\* The WHERE clause of check_for_conflict's query, for one row b.
RowMatches(b, r, s, e) ==
    /\ b.resource_id = r
    /\ b.status \in ActiveStatuses
    /\ \/ (b.start <= s /\ b.end > s)
       \/ (b.start < e /\ b.end >= e)
       \/ (b.start >= s /\ b.end <= e)

MatchingRows(store, r, s, e) ==
    {i \in DOMAIN store : RowMatches(store[i], r, s, e)}

\* check_for_conflict: scalar_one_or_none() gives None for no row, the row for
\* one row, and raises MultipleResultsFound for two or more.
CheckForConflict(store, r, s, e) ==
    LET n == Cardinality(MatchingRows(store, r, s, e))
    IN  IF n = 0 THEN "false" ELSE IF n = 1 THEN "true" ELSE "raise"

NewBooking(r, u, s, e, st) ==
    [resource_id |-> r, requester_id |-> u, start |-> s, end |-> e, status |-> st]

\* create_booking whose conflict check skips the rows of the requester.
DalCreateBookingOwnRowsSkipped(store, r, u, s, e, st, fail) ==
    LET n == Cardinality({i \in MatchingRows(store, r, s, e) :
                             store[i].requester_id # u})
    IN  IF n > 1 THEN [conflict |-> "raise", dal |-> "raise", store |-> store]
        ELSE IF n = 1 THEN [conflict |-> "true", dal |-> "none", store |-> store]
        ELSE IF fail THEN [conflict |-> "false", dal |-> "none", store |-> store]
        ELSE [conflict |-> "false", dal |-> "booking",
              store |-> Append(store, NewBooking(r, u, s, e, st))]

\* BookingDAL.create_booking: what it returns and the table it leaves.
\* fail: the commit raises SQLAlchemyError.
DalCreateBooking(store, r, u, s, e, st, fail) ==
    LET c == CheckForConflict(store, r, s, e)
    IN  IF c = "raise" THEN [conflict |-> c, dal |-> "raise", store |-> store]
        ELSE IF c = "true" THEN [conflict |-> c, dal |-> "none", store |-> store]
        ELSE IF fail THEN [conflict |-> c, dal |-> "none", store |-> store]
        ELSE [conflict |-> c, dal |-> "booking",
              store |-> Append(store, NewBooking(r, u, s, e, st))]

\* update_booking_status writing the status to every row of the booking's
\* resource.
DalUpdateBookingStatusOfResource(store, id, st, fail) ==
    IF id \notin DOMAIN store THEN [ok |-> FALSE, found |-> FALSE, store |-> store]
    ELSE IF fail THEN [ok |-> FALSE, found |-> TRUE, store |-> store]
    ELSE [ok |-> TRUE, found |-> TRUE,
          store |-> [i \in DOMAIN store |->
                       IF store[i].resource_id = store[id].resource_id
                       THEN [store[i] EXCEPT !.status = st] ELSE store[i]]]

\* update_booking_status taking the last row when no row has the id.
DalUpdateBookingStatusClamped(store, id, st, fail) ==
    IF store = << >> THEN [ok |-> FALSE, found |-> FALSE, store |-> store]
    ELSE IF fail THEN [ok |-> FALSE, found |-> TRUE, store |-> store]
    ELSE [ok |-> TRUE, found |-> TRUE,
          store |-> [store EXCEPT ![IF id \in DOMAIN store THEN id
                                    ELSE Len(store)].status = st]]

\* BookingDAL.update_booking_status: no row -> None; else the status is
\* overwritten whatever it was; a failing commit is rolled back. ok: a booking
\* is returned (not None); found: the SELECT gave a row.
DalUpdateBookingStatus(store, id, st, fail) ==
    IF id \notin DOMAIN store THEN [ok |-> FALSE, found |-> FALSE, store |-> store]
    ELSE IF fail THEN [ok |-> FALSE, found |-> TRUE, store |-> store]
    ELSE [ok |-> TRUE, found |-> TRUE, store |-> [store EXCEPT ![id].status = st]]

\* What an update route's step records of the DAL call.
UpdateResult(res) ==
    IF res.ok THEN "booking" ELSE IF res.found THEN "none" ELSE "not_found"

(* --------------------------- booking routes --------------------------- *)

\* The interval test with a strict comparison: an empty window passes.
InvalidIntervalStrict(s, e) == e < s

\* booking_routes.create_booking: if end_time <= start_time.
InvalidInterval(s, e) == e <= s

\* booking_type as the route reads it: getattr(resource, 'booking_type', 'open').
BookingTypeRead(r) == GetAttr(resources[r], "booking_type", "open")

\* The initial status the route computes.
InitialStatus(r) ==
    IF BookingTypeRead(r) = "open" /\ resources[r].status = "published"
    THEN "approved" ELSE "pending"

\* The message the route creates for the owner when the form carries one.
OwnerMessage(u, r, id) ==
    [sender_id |-> u, receiver_id |-> resources[r].owner_id, thread_id |-> id]

\* The conflict branch of the route: it calls UserDAL.get_users_by_role, which
\* UserDAL does not define, so the branch ends in AttributeError.
ConflictBranch(u) ==
    IF "get_users_by_role" \in UserDalMethods
    THEN [outcome |-> "rejected",
          sent |-> [i \in 1 .. Len(Admins) |->
                      [sender_id |-> u, receiver_id |-> Admins[i], thread_id |-> 0]]]
    ELSE [outcome |-> "error", sent |-> << >>]

\* The POST branch of booking_routes.create_booking for user u, run on the
\* tables store and msgs: the tables it leaves and how it ended.
RouteCreateBooking(store, msgs, u, r, s, e, msg, fail) ==
    IF r \notin Resources
    THEN [bookings |-> store, messages |-> msgs,
          last |-> [NoRequest EXCEPT !.op = "create", !.outcome = "not_found"]]
    ELSE IF InvalidInterval(s, e)
    THEN [bookings |-> store, messages |-> msgs,
          last |-> [NoRequest EXCEPT !.op = "create", !.outcome = "invalid"]]
    ELSE LET res == DalCreateBooking(store, r, u, s, e, InitialStatus(r), fail)
             done == [NoRequest EXCEPT !.op = "create",
                                       !.conflict = res.conflict,
                                       !.dal = res.dal]
         IN  IF res.dal = "booking"
             THEN [bookings |-> res.store,
                   messages |-> IF msg
                                THEN Append(msgs, OwnerMessage(u, r, Len(res.store)))
                                ELSE msgs,
                   last |-> [done EXCEPT !.outcome = "created"]]
             ELSE IF res.dal = "raise"
             THEN [bookings |-> res.store, messages |-> msgs,
                   last |-> [done EXCEPT !.outcome = "error"]]
             ELSE [bookings |-> res.store,
                   messages |-> msgs \o ConflictBranch(u).sent,
                   last |-> [done EXCEPT !.outcome = ConflictBranch(u).outcome]]

\* POST /bookings/create/<resource_id> by user u, handled in one piece.
CreateBooking(u, r, s, e, msg, fail) ==
    LET res == RouteCreateBooking(bookings, messages, u, r, s, e, msg, fail)
    IN  /\ \A p \in Procs : pc[p].phase = "idle"
        /\ Len(res.bookings) <= MaxBookings
        /\ bookings' = res.bookings
        /\ messages' = res.messages
        /\ last' = res.last
        /\ UNCHANGED <<resources, configured, pc>>
        /\ UNCHANGED wvars
        /\ UNCHANGED rvars

\* Every role may approve.
MayApproveAlways(role) == TRUE

\* approve_booking: current_user.role in ('staff', 'admin').
MayApprove(role) == role \in {"staff", "admin"}

\* GET /bookings/approve/<booking_id> by user u.
ApproveBooking(u, id, fail) ==
    /\ \A p \in Procs : pc[p].phase = "idle"
    /\ IF ~MayApprove(Role(u))
       THEN /\ last' = [NoRequest EXCEPT !.op = "approve",
                            !.outcome = "forbidden"]
            /\ UNCHANGED bookings
       ELSE LET res == DalUpdateBookingStatus(bookings, id, "approved", fail)
            IN  /\ bookings' = res.store
                /\ last' = [NoRequest EXCEPT !.op = "approve",
                               !.dal = UpdateResult(res),
                               !.outcome = IF res.ok THEN "ok" ELSE "failed"]
    /\ UNCHANGED <<resources, configured, messages, pc>>
    /\ UNCHANGED wvars
    /\ UNCHANGED rvars

\* GET /bookings/cancel/<booking_id> by user u.
CancelBooking(u, id, fail) ==
    /\ \A p \in Procs : pc[p].phase = "idle"
    /\ LET res == DalUpdateBookingStatus(bookings, id, "cancelled", fail)
       IN  /\ bookings' = res.store
           /\ last' = [NoRequest EXCEPT !.op = "cancel",
                          !.dal = UpdateResult(res),
                          !.outcome = IF res.ok THEN "ok" ELSE "failed"]
    /\ UNCHANGED <<resources, configured, messages, pc>>
    /\ UNCHANGED wvars
    /\ UNCHANGED rvars

\* booking_id values a request may carry: the rows, and one id with no row.
BookingIdInputs == 1 .. (Len(bookings) + 1)

(* --------------------------- resource routes -------------------------- *)

\* Resource(**kwargs): the declarative constructor raises TypeError for a
\* keyword that is no mapped attribute.
ResourceConstructor(kwargs) ==
    IF DOMAIN kwargs \subseteq ResourceColumns
    THEN [ok |-> TRUE, row |-> kwargs]
    ELSE [ok |-> FALSE, row |-> kwargs]

\* ResourceDAL.update_resource: setattr for every field of data the object has
\* and whose value is not None.
UpdateResource(row, data) ==
    LET applied == {f \in DOMAIN data : HasAttr(row, f) /\ data[f] # "None"}
    IN  [f \in DOMAIN row |-> IF f \in applied THEN data[f] ELSE row[f]]

\* POST /resources/create by user u with the form's status and booking_type.
CreateResource(u, st, ty) ==
    LET made == ResourceConstructor([owner_id |-> u, status |-> st,
                                     booking_type |-> ty])
        id == Cardinality(DOMAIN resources) + 1
    IN  /\ \A p \in Procs : pc[p].phase = "idle"
        /\ IF Role(u) = "student"
           THEN /\ last' = [NoRequest EXCEPT !.op = "create_resource",
                                             !.outcome = "forbidden"]
                /\ UNCHANGED <<resources, configured>>
           ELSE IF made.ok
           THEN /\ resources' = resources @@ (id :> made.row)
                /\ configured' = configured @@ (id :> ty)
                /\ last' = [NoRequest EXCEPT !.op = "create_resource",
                                             !.outcome = "ok"]
           ELSE /\ last' = [NoRequest EXCEPT !.op = "create_resource",
                                             !.outcome = "error"]
                /\ UNCHANGED <<resources, configured>>
        /\ UNCHANGED <<bookings, messages, pc>>
        /\ UNCHANGED wvars
        /\ UNCHANGED rvars

\* POST /resources/<resource_id>/edit by user u with the form's status and
\* booking_type.
EditResource(u, r, st, ty) ==
    /\ \A p \in Procs : pc[p].phase = "idle"
    /\ IF r \notin Resources
       THEN /\ last' = [NoRequest EXCEPT !.op = "edit_resource",
                                         !.outcome = "not_found"]
            /\ UNCHANGED <<resources, configured>>
       ELSE IF resources[r].owner_id # u /\ Role(u) # "admin"
       THEN /\ last' = [NoRequest EXCEPT !.op = "edit_resource",
                                         !.outcome = "forbidden"]
            /\ UNCHANGED <<resources, configured>>
       ELSE /\ resources' =
                 [resources EXCEPT
                    ![r] = UpdateResource(@, [status |-> st, booking_type |-> ty])]
            /\ configured' = [configured EXCEPT ![r] = ty]
            /\ last' = [NoRequest EXCEPT !.op = "edit_resource", !.outcome = "ok"]
    /\ UNCHANGED <<bookings, messages, pc>>
    /\ UNCHANGED wvars
    /\ UNCHANGED rvars

(* ------------------ create_booking, statement by statement ------------ *)

\* Handler p runs the route up to and including check_for_conflict's SELECT.
BeginCreate(p, u, r, s, e, msg) ==
    /\ pc[p].phase = "idle"
    /\ IF r \notin Resources
       THEN /\ last' = [NoRequest EXCEPT !.op = "create", !.outcome = "not_found"]
            /\ UNCHANGED pc
       ELSE IF InvalidInterval(s, e)
       THEN /\ last' = [NoRequest EXCEPT !.op = "create", !.outcome = "invalid"]
            /\ UNCHANGED pc
       ELSE LET c == CheckForConflict(bookings, r, s, e)
            IN  IF c = "false"
                THEN /\ Len(bookings)
                          + Cardinality({q \in Procs : pc[q].phase = "checked"})
                            < MaxBookings
                     /\ pc' = [pc EXCEPT ![p] =
                                 [phase |-> "checked", user |-> u, resource |-> r,
                                  start |-> s, end |-> e,
                                  status |-> InitialStatus(r), message |-> msg]]
                     /\ UNCHANGED last
                ELSE /\ last' = [NoRequest EXCEPT
                                   !.op = "create", !.conflict = c,
                                   !.dal = IF c = "raise" THEN "raise" ELSE "none",
                                   !.outcome = IF c = "raise" THEN "error"
                                               ELSE ConflictBranch(u).outcome]
                     /\ UNCHANGED pc
    /\ UNCHANGED <<resources, configured, bookings, messages>>
    /\ UNCHANGED wvars
    /\ UNCHANGED rvars

\* Handler p, having found no conflict, adds the row and commits, and the
\* route finishes.
FinishCreate(p, fail) ==
    /\ pc[p].phase = "checked"
    /\ pc' = [pc EXCEPT ![p] = Idle]
    /\ IF fail
       THEN /\ last' = [NoRequest EXCEPT !.op = "create", !.conflict = "false",
                                         !.dal = "none",
                                         !.outcome = ConflictBranch(pc[p].user).outcome]
            /\ UNCHANGED <<bookings, messages>>
       ELSE /\ bookings' = Append(bookings,
                              NewBooking(pc[p].resource, pc[p].user, pc[p].start,
                                         pc[p].end, pc[p].status))
            /\ messages' = IF pc[p].message
                           THEN Append(messages,
                                       OwnerMessage(pc[p].user, pc[p].resource,
                                                    Len(bookings) + 1))
                           ELSE messages
            /\ last' = [NoRequest EXCEPT !.op = "create", !.conflict = "false",
                                         !.dal = "booking", !.outcome = "created"]
    /\ UNCHANGED <<resources, configured>>
    /\ UNCHANGED wvars
    /\ UNCHANGED rvars

(* ------------------------------ WaitlistDAL --------------------------- *)

\* The rows the WHERE resource_id = :resource_id AND user_id = :user_id
\* clauses select.
WaitlistRowsOf(table, r, u) ==
    {w \in table : w.resource_id = r /\ w.user_id = u}

NewWaitlistRow(r, u, now) ==
    [resource_id |-> r, user_id |-> u, created_at |-> now]

\* The INSERT and commit of add_to_waitlist, with created_at = utcnow(); a
\* storage error is rolled back and gives False.
InsertWaitlistRow(table, r, u, now, fail) ==
    IF fail THEN [ok |-> FALSE, table |-> table]
    ELSE [ok |-> TRUE, table |-> table \cup {NewWaitlistRow(r, u, now)}]

\* add_to_waitlist without its existence check.
AddToWaitlistUnchecked(table, r, u, now, fail) ==
    InsertWaitlistRow(table, r, u, now, fail)

\* WaitlistDAL.add_to_waitlist: False when a row for the pair exists; else the
\* row is inserted.
AddToWaitlist(table, r, u, now, fail) ==
    IF WaitlistRowsOf(table, r, u) # {} THEN [ok |-> FALSE, table |-> table]
    ELSE InsertWaitlistRow(table, r, u, now, fail)

\* WaitlistDAL.remove_from_waitlist: DELETE and commit give True; a storage
\* error is rolled back and gives False.
RemoveFromWaitlistDal(table, r, u, fail) ==
    IF fail THEN [ok |-> FALSE, table |-> table]
    ELSE [ok |-> TRUE, table |-> table \ WaitlistRowsOf(table, r, u)]

\* ORDER BY created_at DESC.
RECURSIVE OrderByCreatedAtDesc(_)
OrderByCreatedAtDesc(rows) ==
    IF rows = {} THEN << >>
    ELSE LET first == CHOOSE w \in rows :
                          \A x \in rows : w.created_at >= x.created_at
         IN  <<first>> \o OrderByCreatedAtDesc(rows \ {first})

\* ORDER BY created_at ASC.
RECURSIVE OrderByCreatedAt(_)
OrderByCreatedAt(rows) ==
    IF rows = {} THEN << >>
    ELSE LET first == CHOOSE w \in rows :
                          \A x \in rows : w.created_at <= x.created_at
         IN  <<first>> \o OrderByCreatedAt(rows \ {first})

\* The rows of the query of get_waitlist_for_resource: waitlist JOIN users,
\* WHERE w.resource_id = :resource_id.
WaitlistJoinUsers(table, r) ==
    {w \in table : w.resource_id = r /\ w.user_id \in Users}

\* WaitlistDAL.get_waitlist_for_resource.
GetWaitlistForResource(table, r) == OrderByCreatedAt(WaitlistJoinUsers(table, r))

\* The history of enrollments after the rows of the pair (r, u) are deleted.
WithoutPair(seq, r, u) == SelectSeq(seq, LAMBDA x : x # <<r, u>>)

\* POST /bookings/waitlist/<resource_id> by user u, handled in one piece.
JoinWaitlist(u, r, fail) ==
    LET res == AddToWaitlist(waitlist, r, u, clock, fail)
    IN  /\ \A p \in Procs : pc[p].phase = "idle"
        /\ res.ok => clock < MaxClock
        /\ waitlist' = res.table
        /\ clock' = IF res.ok THEN clock + 1 ELSE clock
        /\ enrolled' = IF res.ok THEN Append(enrolled, <<r, u>>) ELSE enrolled
        /\ last' = [NoRequest EXCEPT !.op = "join_waitlist",
                       !.conflict = IF WaitlistRowsOf(waitlist, r, u) # {}
                                    THEN "true" ELSE "false",
                       !.dal = IF res.ok THEN "true" ELSE "false",
                       !.outcome = IF res.ok THEN "added" ELSE "already"]
        /\ UNCHANGED <<resources, configured, bookings, messages, pc>>
        /\ UNCHANGED rvars

\* WaitlistDAL.remove_from_waitlist(r, u), called in one piece.
RemoveFromWaitlist(u, r, fail) ==
    LET res == RemoveFromWaitlistDal(waitlist, r, u, fail)
    IN  /\ \A p \in Procs : pc[p].phase = "idle"
        /\ waitlist' = res.table
        /\ enrolled' = IF res.ok THEN WithoutPair(enrolled, r, u) ELSE enrolled
        /\ last' = [NoRequest EXCEPT !.op = "remove_from_waitlist",
                       !.dal = IF res.ok THEN "true" ELSE "false"]
        /\ UNCHANGED <<resources, configured, bookings, messages, pc, clock>>
        /\ UNCHANGED rvars

\* Handler p runs add_to_waitlist up to and including its SELECT.
BeginJoin(p, u, r) ==
    /\ pc[p].phase = "idle"
    /\ IF WaitlistRowsOf(waitlist, r, u) # {}
       THEN /\ last' = [NoRequest EXCEPT !.op = "join_waitlist",
                           !.conflict = "true",
                           !.dal = "false", !.outcome = "already"]
            /\ UNCHANGED pc
       ELSE /\ clock + Cardinality({q \in Procs : pc[q].phase = "join_checked"})
                 < MaxClock
            /\ pc' = [pc EXCEPT ![p] = [Idle EXCEPT !.phase = "join_checked",
                                                    !.user = u, !.resource = r]]
            /\ UNCHANGED last
    /\ UNCHANGED <<resources, configured, bookings, messages>>
    /\ UNCHANGED wvars
    /\ UNCHANGED rvars

\* Handler p, having found no row, runs the INSERT and commits.
FinishJoin(p, fail) ==
    LET res == InsertWaitlistRow(waitlist, pc[p].resource, pc[p].user,
                                 clock, fail)
    IN  /\ pc[p].phase = "join_checked"
        /\ pc' = [pc EXCEPT ![p] = Idle]
        /\ waitlist' = res.table
        /\ clock' = IF res.ok THEN clock + 1 ELSE clock
        /\ enrolled' = IF res.ok
                       THEN Append(enrolled, <<pc[p].resource, pc[p].user>>)
                       ELSE enrolled
        /\ last' = [NoRequest EXCEPT !.op = "join_waitlist",
                       !.conflict = "false",
                       !.dal = IF res.ok THEN "true" ELSE "false",
                       !.outcome = IF res.ok THEN "added" ELSE "already"]
        /\ UNCHANGED <<resources, configured, bookings, messages>>
        /\ UNCHANGED rvars

(* ---------------- the life of the bookings of one resource ------------ *)

\* Requests of one user for the draft resource (and for an id with no row),
\* approvals and cancellations by every user, one request at a time.
Next ==
    \/ \E r \in {2, 3}, s \in Times, e \in Times, fail \in BOOLEAN :
          CreateBooking(1, r, s, e, FALSE, fail)
    \/ \E u \in Users, id \in BookingIdInputs, fail \in BOOLEAN :
          ApproveBooking(u, id, fail)
    \/ \E u \in Users, id \in BookingIdInputs, fail \in BOOLEAN :
          CancelBooking(u, id, fail)

Spec == Init /\ [][Next]_vars

(* ------------------- booking requests of every kind ------------------- *)

\* Booking requests only, for every resource id, with and without a message
\* for the owner.
NextRoute ==
    \E r \in ResourceIdInputs, s \in Times, e \in Times,
       msg \in BOOLEAN, fail \in BOOLEAN :
       CreateBooking(1, r, s, e, msg, fail)

SpecRoute == Init /\ [][NextRoute]_vars

(* --------------- resources being configured and booked ---------------- *)

NextAdmission ==
    \/ \E u \in Users, st \in ResourceStatuses, ty \in BookingTypes :
          CreateResource(u, st, ty)
    \/ \E u \in Users, r \in ResourceIdInputs, st \in ResourceStatuses,
          ty \in BookingTypes :
          EditResource(u, r, st, ty)
    \/ \E r \in Resources, s \in Times, e \in Times :
          CreateBooking(1, r, s, e, FALSE, FALSE)

SpecAdmission == Init /\ [][NextAdmission]_vars

(* ------------------- booking requests running together ---------------- *)

NextConc ==
    \/ \E p \in Procs, r \in Resources, s \in Times, e \in Times :
          BeginCreate(p, 1, r, s, e, FALSE)
    \/ \E p \in Procs, fail \in BOOLEAN :
          FinishCreate(p, fail)

SpecConc == Init /\ [][NextConc]_vars

(* ------------------------- the waitlist, one call at a time ----------- *)

NextWaitlist ==
    \/ \E u \in Users, r \in Resources, fail \in BOOLEAN :
          JoinWaitlist(u, r, fail)
    \/ \E u \in Users, r \in Resources, fail \in BOOLEAN :
          RemoveFromWaitlist(u, r, fail)

SpecWaitlist == Init /\ [][NextWaitlist]_vars

(* ------------------------- enrollments running together --------------- *)

NextJoinConc ==
    \/ \E p \in Procs, u \in Users, r \in Resources : BeginJoin(p, u, r)
    \/ \E p \in Procs, fail \in BOOLEAN : FinishJoin(p, fail)
    \/ \E u \in Users, r \in Resources : RemoveFromWaitlist(u, r, FALSE)

SpecJoinConc == Init /\ [][NextJoinConc]_vars

(* ------------------------- waiting and then booking ------------------- *)

NextWaitBook ==
    \/ \E u \in Users, r \in Resources : JoinWaitlist(u, r, FALSE)
    \/ \E u \in Users, r \in Resources, s \in Times, e \in Times :
          CreateBooking(u, r, s, e, FALSE, FALSE)

SpecWaitBook == Init /\ [][NextWaitBook]_vars

(* ------------------- bookings of every user being cancelled ----------- *)

NextCancel ==
    \/ \E u \in Users, s \in Times, e \in Times :
          CreateBooking(u, 2, s, e, FALSE, FALSE)
    \/ \E u \in Users, id \in BookingIdInputs, fail \in BOOLEAN :
          CancelBooking(u, id, fail)

SpecCancel == Init /\ [][NextCancel]_vars

(* -------------------------- UserDAL and registration ------------------ *)

\* str.lower() on one character.
LowerChar(c) ==
    CASE c = "A" -> "a" [] c = "B" -> "b" [] c = "C" -> "c" [] c = "D" -> "d"
      [] c = "S" -> "s" [] OTHER -> c

\* str.lower().
Lower(str) == [i \in DOMAIN str |-> LowerChar(str[i])]

\* str.strip(): leading and trailing whitespace removed.
RECURSIVE Strip(_)
Strip(str) ==
    IF str = << >> THEN str
    ELSE IF Head(str) = " " THEN Strip(Tail(str))
    ELSE IF str[Len(str)] = " " THEN Strip(SubSeq(str, 1, Len(str) - 1))
    ELSE str

\* email.strip() alone.
NormaliseStripOnly(email) == Strip(email)

\* email.strip().lower()
Normalise(email) == Lower(Strip(email))

\* UserDAL.get_user_by_email: SELECT * FROM users WHERE email = :email.
GetUserByEmail(table, email) == {i \in DOMAIN table : table[i].email = email}

\* UserDAL.create_user. fail: how the commit ends (no: it succeeds; integrity:
\* IntegrityError; other: another exception, which is raised again).
CreateUser(table, email, role, fail) ==
    LET e == Normalise(email)
    IN  IF GetUserByEmail(table, e) # {}
        THEN [found |-> TRUE, user |-> "none", table |-> table]
        ELSE IF fail = "integrity"
        THEN [found |-> FALSE, user |-> "none", table |-> table]
        ELSE IF fail = "other"
        THEN [found |-> FALSE, user |-> "raise", table |-> table]
        ELSE [found |-> FALSE, user |-> "user",
              table |-> Append(table, [email |-> e, role |-> role])]

\* RegisterForm.role: the choices of the SelectField.
RoleChoices == {"student", "staff"}

\* auth_routes.ALLOWED_ROLES
AllowedRoles == {"student", "staff"}

\* Every role passes.
RoleAcceptedAlways(role) == TRUE

\* The role passes the form's validation and the route's ALLOWED_ROLES test.
RoleAccepted(role) == role \in RoleChoices /\ role \in AllowedRoles

\* Emails and roles a registration request may carry.
EmailInputs ==
    {<<"A">>, <<" ", "s">>, <<"b">>, <<"B", " ">>, <<"c">>, <<" ", "C">>,
     <<"d">>, <<" ", "D", " ">>}

RoleInputs == {"student", "staff", "admin"}

\* POST /auth/register. The form's Email() and password validators are not
\* modelled: every email of EmailInputs reaches the route.
Register(email, role, fail) ==
    /\ \A p \in Procs : pc[p].phase = "idle"
    /\ IF ~RoleAccepted(role)
       THEN /\ last' = [NoRequest EXCEPT !.op = "register",
                                         !.outcome = "invalid_role"]
            /\ UNCHANGED accounts
       ELSE LET res == CreateUser(accounts, Lower(Strip(email)), role, fail)
            IN  /\ Len(res.table) <= MaxAccounts
                /\ accounts' = res.table
                /\ last' = [NoRequest EXCEPT
                              !.op = "register",
                              !.conflict = IF res.found THEN "true" ELSE "false",
                              !.dal = res.user,
                              !.outcome = IF res.user = "user" THEN "ok"
                                          ELSE IF res.user = "raise" THEN "db_error"
                                          ELSE "failed"]
    /\ UNCHANGED <<resources, configured, bookings, messages, pc>>
    /\ UNCHANGED wvars
    /\ UNCHANGED <<reviews, stats>>

(* ------------------------------ registrations ------------------------- *)

NextRegister ==
    \E email \in EmailInputs, role \in RoleInputs,
       fail \in {"no", "integrity", "other"} :
       Register(email, role, fail)

SpecRegister == Init /\ [][NextRegister]_vars

(* ------------------------------ login_required ------------------------ *)

\* current_user of a client that is not logged in.
Anonymous == 0

\* The handler runs whoever asks.
LoginNotRequired(u, handler) == handler

\* @login_required: a client that is not authenticated is redirected to
\* login_view and the handler does not run.
LoginRequired(u, handler) ==
    IF u = Anonymous
    THEN /\ last' = [NoRequest EXCEPT !.op = "login_required", !.outcome = "login"]
         /\ UNCHANGED <<resources, configured, bookings, messages, pc>>
         /\ UNCHANGED wvars
         /\ UNCHANGED rvars
    ELSE handler

\* The routes as a client reaches them.
CreateBookingRequest(u, r, s, e, msg, fail) ==
    LoginRequired(u, CreateBooking(u, r, s, e, msg, fail))

ApproveBookingRequest(u, id, fail) == LoginRequired(u, ApproveBooking(u, id, fail))

CancelBookingRequest(u, id, fail) == LoginRequired(u, CancelBooking(u, id, fail))

JoinWaitlistRequest(u, r, fail) == LoginRequired(u, JoinWaitlist(u, r, fail))

CreateResourceRequest(u, st, ty) == LoginRequired(u, CreateResource(u, st, ty))

(* ------------------- requests with and without a login ---------------- *)

NextAuth ==
    \/ \E u \in {Anonymous, 1}, e \in Times :
          CreateBookingRequest(u, 2, 0, e, FALSE, FALSE)
    \/ \E u \in {Anonymous, 2}, id \in BookingIdInputs :
          ApproveBookingRequest(u, id, FALSE)
    \/ \E u \in {Anonymous, 1}, id \in BookingIdInputs :
          CancelBookingRequest(u, id, FALSE)
    \/ \E u \in {Anonymous, 1} :
          JoinWaitlistRequest(u, 2, FALSE)
    \/ \E u \in {Anonymous, 2}, ty \in BookingTypes :
          CreateResourceRequest(u, "published", ty)

SpecAuth == Init /\ [][NextAuth]_vars

(* ------------------------------- ReviewDAL ---------------------------- *)

\* ReviewForm.rating: the choices of the SelectField.
RatingChoices == 1 .. 5

\* The aggregate taken over every row, whatever its resource.
AllRows(table, r) == DOMAIN table

\* The rows WHERE resource_id = :resource_id selects, by row.
RatedRows(table, r) == {i \in DOMAIN table : table[i].resource_id = r}

RECURSIVE SumOfRatings(_, _)
SumOfRatings(table, rows) ==
    IF rows = {} THEN 0
    ELSE LET i == CHOOSE x \in rows : TRUE
         IN  table[i].rating + SumOfRatings(table, rows \ {i})

\* round(num / den, 1), in tenths: the nearest tenth, an exact tie going to the
\* even tenth.
RoundToTenths(num, den) ==
    LET q == (10 * num) \div den
        rem == (10 * num) % den
    IN  IF 2 * rem < den THEN q
        ELSE IF 2 * rem > den THEN q + 1
        ELSE IF q % 2 = 0 THEN q ELSE q + 1

\* ReviewDAL.get_resource_rating_stats; avg_rating is given in tenths.
GetResourceRatingStats(table, r) ==
    LET rows == RatedRows(table, r)
        n == Cardinality(rows)
    IN  IF n = 0 THEN NoStats
        ELSE [total_reviews |-> n,
              avg_tenths |-> RoundToTenths(SumOfRatings(table, rows), n),
              min_rating |-> CHOOSE m \in {table[i].rating : i \in rows} :
                                \A i \in rows : m <= table[i].rating,
              max_rating |-> CHOOSE m \in {table[i].rating : i \in rows} :
                                \A i \in rows : m >= table[i].rating]

\* POST /reviews/create/<resource_id> by user u with a rating of the form.
CreateReview(u, r, rating) ==
    /\ \A p \in Procs : pc[p].phase = "idle"
    /\ IF r \notin Resources
       THEN /\ last' = [NoRequest EXCEPT !.op = "create_review",
                                         !.outcome = "not_found"]
            /\ UNCHANGED reviews
       ELSE /\ Len(reviews) < MaxReviews
            /\ reviews' = Append(reviews, [resource_id |-> r, reviewer_id |-> u,
                                           rating |-> rating])
            /\ last' = [NoRequest EXCEPT !.op = "create_review", !.outcome = "ok"]
    /\ UNCHANGED <<resources, configured, bookings, messages, pc>>
    /\ UNCHANGED wvars
    /\ UNCHANGED <<accounts, stats>>

\* A call of get_resource_rating_stats(r).
RatingStats(r) ==
    /\ \A p \in Procs : pc[p].phase = "idle"
    /\ stats' = GetResourceRatingStats(reviews, r)
    /\ last' = [NoRequest EXCEPT !.op = "rating_stats"]
    /\ UNCHANGED <<resources, configured, bookings, messages, pc>>
    /\ UNCHANGED wvars
    /\ UNCHANGED <<accounts, reviews>>

(* --------------------------- reviews and their statistics ------------- *)

NextReview ==
    \/ \E r \in ResourceIdInputs, rating \in RatingChoices : CreateReview(1, r, rating)
    \/ \E r \in ResourceIdInputs : RatingStats(r)

SpecReview == Init /\ [][NextReview]_vars

(* ------------------- bookings being approved by every user ------------ *)

NextApprove ==
    \/ \E r \in {2, 3}, s \in Times, e \in Times, fail \in BOOLEAN :
          CreateBooking(1, r, s, e, FALSE, fail)
    \/ \E u \in Users, id \in BookingIdInputs, fail \in BOOLEAN :
          ApproveBooking(u, id, fail)

SpecApprove == Init /\ [][NextApprove]_vars

(* ------------------- BookingDAL: the calendar view -------------------- *)

\* ORDER BY start_datetime ASC over the row ids ids of the table store; rows
\* with one start keep their insertion order.
RECURSIVE OrderByStart(_, _)
OrderByStart(store, ids) ==
    IF ids = {} THEN << >>
    ELSE LET first == CHOOSE i \in ids :
                          \A j \in ids : \/ store[i].start < store[j].start
                                         \/ /\ store[i].start = store[j].start
                                            /\ i <= j
         IN  <<store[first]>> \o OrderByStart(store, ids \ {first})

\* BookingDAL.get_bookings_for_resource: WHERE resource_id = :resource_id, with
\* no condition on the status.
GetBookingsForResource(store, r) ==
    OrderByStart(store, {i \in DOMAIN store : store[i].resource_id = r})

(* ------------------- status changes beside a waitlist ----------------- *)

NextStatus ==
    \/ \E s \in Times : CreateBooking(1, 2, s, s + 1, FALSE, FALSE)
    \/ \E u \in Users : JoinWaitlist(u, 2, FALSE)
    \/ \E id \in BookingIdInputs, fail \in BOOLEAN : ApproveBooking(2, id, fail)
    \/ \E u \in Users, id \in BookingIdInputs, fail \in BOOLEAN :
          CancelBooking(u, id, fail)

SpecStatus == Init /\ [][NextStatus]_vars

(* ------------------- pending bookings approved, bookings cancelled ---- *)

\* approve_booking requested for a pending booking, or for an id with no row.
ApprovePendingBooking(u, id, fail) ==
    /\ id \in DOMAIN bookings => bookings[id].status = "pending"
    /\ ApproveBooking(u, id, fail)

NextLegal ==
    \/ \E s \in Times, e \in Times : CreateBooking(1, 2, s, e, FALSE, FALSE)
    \/ \E id \in BookingIdInputs : ApprovePendingBooking(2, id, FALSE)
    \/ \E id \in BookingIdInputs : CancelBooking(1, id, FALSE)

SpecLegal == Init /\ [][NextLegal]_vars

(* ------------------- the rules the claims are stated in --------------- *)

\* Two half-open intervals [s1,e1) and [s2,e2) overlap.
Overlap(s1, e1, s2, e2) == s1 < e2 /\ s2 < e1

\* A reservation that counts for conflicts.
IsActive(b) == b.status = "pending" \/ b.status = "approved"

\* Some active reservation of resource r overlaps [s,e).
Blocked(store, r, s, e) ==
    \E i \in DOMAIN store :
        /\ store[i].resource_id = r
        /\ IsActive(store[i])
        /\ Overlap(store[i].start, store[i].end, s, e)

\* Some active reservation of resource r ends where [s,e) starts or starts
\* where it ends.
TouchesActive(store, r, s, e) ==
    \E i \in DOMAIN store :
        /\ store[i].resource_id = r
        /\ IsActive(store[i])
        /\ (store[i].end = s \/ store[i].start = e)

\* The last row is a new active reservation of r for [s,e) and the rows before
\* it are those of store.
Admitted(store, after, r, s, e) ==
    /\ Len(after) = Len(store) + 1
    /\ SubSeq(after, 1, Len(store)) = store
    /\ after[Len(after)].resource_id = r
    /\ after[Len(after)].start = s
    /\ after[Len(after)].end = e
    /\ IsActive(after[Len(after)])

(* ------------------------------- claims ------------------------------- *)

\* C1: no two pending/approved reservations of one resource ever overlap,
\* after any sequence of booking requests, approvals and cancellations.
NoDoubleBooking ==
    \A i \in DOMAIN bookings : \A j \in DOMAIN bookings :
        (/\ i < j
         /\ bookings[i].resource_id = bookings[j].resource_id
         /\ IsActive(bookings[i])
         /\ IsActive(bookings[j]))
        => ~Overlap(bookings[i].start, bookings[i].end,
                    bookings[j].start, bookings[j].end)

\* C3: for a request with end > start, check_for_conflict returns true exactly
\* when an active reservation of the resource overlaps the request, false
\* exactly when none does, and (the commit not failing) create_booking returns
\* no booking exactly when one does.
CheckIsOverlapRule ==
    [][\A u \in Users, r \in Resources, s \in Times, e \in Times,
          msg \in BOOLEAN, fail \in BOOLEAN :
          (s < e /\ CreateBooking(u, r, s, e, msg, fail))
          => /\ (last'.conflict = "true") <=> Blocked(bookings, r, s, e)
             /\ (last'.conflict = "false") <=> ~Blocked(bookings, r, s, e)
             /\ ~fail => ((last'.dal = "none") <=> Blocked(bookings, r, s, e))]_vars

\* C4: in every reachable state, a request that only touches an active
\* reservation of the resource at an endpoint, and overlaps none, is admitted
\* (the commit not failing); and a conflict is reported only when an active
\* reservation really overlaps.
AdjacentIsAdmitted ==
    \A u \in Users, r \in Resources, s \in Times, e \in Times :
       s < e
       => LET res == RouteCreateBooking(bookings, messages, u, r, s, e, FALSE, FALSE)
          IN  /\ (TouchesActive(bookings, r, s, e) /\ ~Blocked(bookings, r, s, e))
                 => /\ res.last.outcome = "created"
                    /\ res.last.conflict = "false"
                    /\ Admitted(bookings, res.bookings, r, s, e)
              /\ res.last.conflict \in {"true", "raise"}
                 => Blocked(bookings, r, s, e)

\* C4 witness: [s,e) is active and the request for [e,e2) has just been admitted.
AdjacentAdmittedReached ==
    /\ last.op = "create"
    /\ last.outcome = "created"
    /\ \E i \in 1 .. (Len(bookings) - 1) :
         /\ bookings[i].resource_id = bookings[Len(bookings)].resource_id
         /\ IsActive(bookings[i])
         /\ bookings[i].end = bookings[Len(bookings)].start

InactiveStatuses == {"cancelled", "rejected", "completed"}

\* Some cancelled reservation of resource r has the window [s,e).
CancelledWindow(store, r, s, e) ==
    \E i \in DOMAIN store :
        /\ store[i].resource_id = r
        /\ store[i].start = s
        /\ store[i].end = e
        /\ store[i].status = "cancelled"

\* The rows of store that count for conflicts.
ActiveRows(store) == SelectSeq(store, IsActive)

\* C5: in every reachable state, the rows whose status is cancelled, rejected
\* or completed never change what check_for_conflict answers (no such row
\* matches its query, and the answer is the one the active rows alone give);
\* and a request for the window of a cancelled reservation of the resource,
\* overlapping no active one, is admitted (the commit not failing).
CancelledNeverBlocks ==
    \A r \in Resources, s \in Times, e \in Times :
       s < e
       => /\ \A st \in InactiveStatuses, bs \in Times, be \in Times :
                ~RowMatches(NewBooking(r, 1, bs, be, st), r, s, e)
          /\ CheckForConflict(bookings, r, s, e)
               = CheckForConflict(ActiveRows(bookings), r, s, e)
          /\ (CancelledWindow(bookings, r, s, e) /\ ~Blocked(bookings, r, s, e))
             => \A u \in Users :
                   LET res == RouteCreateBooking(bookings, messages, u, r, s, e,
                                                 FALSE, FALSE)
                   IN  /\ res.last.outcome = "created"
                       /\ Admitted(bookings, res.bookings, r, s, e)

\* C5 witness: a reservation was cancelled and the same window of the same
\* resource has just been booked again.
RebookedAfterCancelReached ==
    /\ last.op = "create"
    /\ last.outcome = "created"
    /\ \E i \in 1 .. (Len(bookings) - 1) :
         /\ bookings[i].resource_id = bookings[Len(bookings)].resource_id
         /\ bookings[i].start = bookings[Len(bookings)].start
         /\ bookings[i].end = bookings[Len(bookings)].end
         /\ bookings[i].status = "cancelled"

\* The table with the status of active row i switched between pending and
\* approved.
SwitchStatus(store, i) ==
    [store EXCEPT ![i].status = IF @ = "pending" THEN "approved" ELSE "pending"]

\* C6: whatever the table, switching an active reservation between pending and
\* approved changes neither check_for_conflict's answer nor what create_booking
\* returns, for any request.
PendingBlocksAsApproved ==
    \A i \in DOMAIN bookings :
        IsActive(bookings[i])
        => \A r \in Resources, s \in Times, e \in Times, fail \in BOOLEAN :
              s < e
              => /\ CheckForConflict(SwitchStatus(bookings, i), r, s, e)
                      = CheckForConflict(bookings, r, s, e)
                 /\ DalCreateBooking(SwitchStatus(bookings, i), r, 1, s, e,
                                     "pending", fail).dal
                      = DalCreateBooking(bookings, r, 1, s, e, "pending", fail).dal

\* C6 witness: a request has just been refused for conflict while every active
\* reservation is pending.
RefusedByPendingReached ==
    /\ last.op = "create"
    /\ last.conflict = "true"
    /\ \E i \in DOMAIN bookings : bookings[i].status = "pending"
    /\ \A i \in DOMAIN bookings : IsActive(bookings[i]) => bookings[i].status = "pending"

\* C10: a request that overlaps one or more active reservations of the resource
\* is answered by create_booking returning no booking, never by an exception.
ConflictIsAResult ==
    [][\A u \in Users, r \in Resources, s \in Times, e \in Times,
          msg \in BOOLEAN, fail \in BOOLEAN :
          (/\ s < e
           /\ Blocked(bookings, r, s, e)
           /\ CreateBooking(u, r, s, e, msg, fail))
          => /\ last'.dal = "none"
             /\ last'.conflict = "true"]_vars


(* C2: when two overlapping requests for the same resource run together, the
   check and the insert of each act as one step, so that at most one of them
   creates a reservation: no two active reservations of one resource overlap,
   whatever the interleaving of the handlers. *)
AtMostOneAdmitted ==
    \A i \in DOMAIN bookings : \A j \in DOMAIN bookings :
        (/\ i < j
         /\ bookings[i].resource_id = bookings[j].resource_id
         /\ IsActive(bookings[i])
         /\ Overlap(bookings[i].start, bookings[i].end,
                    bookings[j].start, bookings[j].end))
        => ~IsActive(bookings[j])

(* C7: a created booking starts approved exactly when the resource's admission
   mode, as its owner configured it, is open and the resource is published;
   otherwise it starts pending. *)
ApprovedIffOpenAndPublished ==
    [][\A u \in Users, r \in Resources, s \in Times, e \in Times,
          msg \in BOOLEAN, fail \in BOOLEAN :
          (CreateBooking(u, r, s, e, msg, fail) /\ last'.outcome = "created")
          => LET new == bookings'[Len(bookings')]
             IN  /\ new.status \in {"approved", "pending"}
                 /\ new.status = "approved"
                      <=> (configured[r] = "open"
                           /\ resources[r].status = "published")]_vars

(* C8: a booking of a resource whose owner configured it restricted starts
   pending: the mode the owner stored is the mode booking creation reads. *)
RestrictedStartsPending ==
    [][\A u \in Users, r \in Resources, s \in Times, e \in Times,
          msg \in BOOLEAN, fail \in BOOLEAN :
          (/\ configured[r] = "restricted"
           /\ CreateBooking(u, r, s, e, msg, fail)
           /\ last'.outcome = "created")
          => bookings'[Len(bookings')].status = "pending"]_vars

(* C9: a request whose end is not after its start is refused as invalid before
   any conflict check; no booking is created and no message is sent; every
   booking ever created ends after it starts. *)
InvalidWindowRefused ==
    /\ \A i \in DOMAIN bookings : bookings[i].end > bookings[i].start
    /\ \A u \in Users, r \in Resources, s \in Times, e \in Times, msg \in BOOLEAN :
          e <= s
          => LET res == RouteCreateBooking(bookings, messages, u, r, s, e, msg, FALSE)
             IN  /\ res.last.outcome = "invalid"
                 /\ res.last.conflict = "skipped"
                 /\ res.last.dal = "skipped"
                 /\ res.bookings = bookings
                 /\ res.messages = messages

\* An invalid request has just been refused while bookings and messages exist.
InvalidRefusedReached ==
    /\ last.op = "create"
    /\ last.outcome = "invalid"
    /\ last.conflict = "skipped"
    /\ Len(bookings) > 0
    /\ Len(messages) > 0

\* The transitions of a reservation's status the state machine allows.
LegalTransitions ==
    {<<"pending", "approved">>, <<"pending", "rejected">>,
     <<"pending", "cancelled">>, <<"approved", "cancelled">>,
     <<"approved", "completed">>}

(* C11: a reservation's status changes only along a legal transition (pending
   to approved, rejected or cancelled; approved to cancelled or completed;
   rejected, cancelled and completed are final), and approve_booking changes
   only a pending booking. *)
LegalTransitionsOnly ==
    [][\A i \in DOMAIN bookings :
          bookings'[i].status # bookings[i].status
          => /\ <<bookings[i].status, bookings'[i].status>> \in LegalTransitions
             /\ last'.op = "approve" => bookings[i].status = "pending"]_vars

(* C12: with enroll and remove called one at a time, the waitlist holds at
   most one entry per (resource_id, user_id); enrolling a pair that is on the
   waitlist returns False and leaves the waitlist, and so its length,
   unchanged. *)
OneEntryPerPair ==
    \A r \in Resources, u \in Users :
        /\ Cardinality(WaitlistRowsOf(waitlist, r, u)) <= 1
        /\ WaitlistRowsOf(waitlist, r, u) # {}
           => \A fail \in BOOLEAN :
                 LET res == AddToWaitlist(waitlist, r, u, clock, fail)
                 IN  /\ ~res.ok
                     /\ res.table = waitlist
                     /\ Cardinality(res.table) = Cardinality(waitlist)

\* add_to_waitlist has just found the pair on the waitlist and returned False.
AlreadyEnrolledReached ==
    /\ last.op = "join_waitlist"
    /\ last.conflict = "true"
    /\ last.dal = "false"
    /\ waitlist # {}
    /\ Len(enrolled) = Cardinality(waitlist)

(* C13: enrollments of the same (resource_id, user_id) that run together leave
   exactly one waitlist entry: the check and the insert of add_to_waitlist are
   serialized, so the waitlist never holds two rows of one pair. *)
NoDuplicateEnrollment ==
    \A w1 \in waitlist, w2 \in waitlist :
        (w1.resource_id = w2.resource_id /\ w1.user_id = w2.user_id) => w1 = w2

\* The (resource_id, user_id) pairs of a sequence of waitlist rows.
PairsOf(rows) == [i \in DOMAIN rows |-> <<rows[i].resource_id, rows[i].user_id>>]

(* C14: get_waitlist_for_resource(r) returns exactly the current waitlist
   entries of resource r, first enrolled first, after any sequence of enroll
   and remove calls on any resources. *)
ListIsFifo ==
    \A r \in Resources :
        LET list == GetWaitlistForResource(waitlist, r)
        IN  /\ {list[i] : i \in DOMAIN list} = {w \in waitlist : w.resource_id = r}
            /\ Len(list) = Cardinality({w \in waitlist : w.resource_id = r})
            /\ PairsOf(list) = SelectSeq(enrolled, LAMBDA x : x[1] = r)

\* Resource 1 lists user 2 before user 1 while resource 2 has an entry too, and
\* an entry has been removed before.
FifoListReached ==
    /\ PairsOf(GetWaitlistForResource(waitlist, 1)) = <<<<1, 2>>, <<1, 1>>>>
    /\ GetWaitlistForResource(waitlist, 2) # << >>
    /\ \E w \in waitlist : w.resource_id = 1 /\ w.user_id = 2 /\ w.created_at > 0

(* C15: remove_from_waitlist(r, u) returns True exactly when an entry of the
   pair existed and was removed; for a pair that is not on the waitlist it
   returns False and leaves the waitlist unchanged. *)
RemoveTellsWhatItDid ==
    [][\A u \in Users, r \in Resources, fail \in BOOLEAN :
          RemoveFromWaitlist(u, r, fail)
          => /\ last'.dal = "true"
                  <=> (/\ WaitlistRowsOf(waitlist, r, u) # {}
                       /\ WaitlistRowsOf(waitlist', r, u) = {})
             /\ WaitlistRowsOf(waitlist, r, u) = {}
                  => (last'.dal = "false" /\ waitlist' = waitlist)]_vars

(* C16: when a reservation is created for user u on resource r, u's waitlist
   entry for r is removed: after the successful booking the waitlist holds no
   entry of (r, u). *)
BookingLeavesWaitlist ==
    [][\A u \in Users, r \in Resources, s \in Times, e \in Times :
          (CreateBooking(u, r, s, e, FALSE, FALSE) /\ last'.outcome = "created")
          => WaitlistRowsOf(waitlist', r, u) = {}]_vars

(* C17: when a booking request is rejected for conflict, no reservation is
   created, every existing reservation is unchanged, and a notification message
   from the requester is created for every administrator. *)
ConflictNotifiesAdmins ==
    [][\A u \in Users, r \in Resources, s \in Times, e \in Times,
          msg \in BOOLEAN, fail \in BOOLEAN :
          (s < e /\ Blocked(bookings, r, s, e)
                 /\ CreateBooking(u, r, s, e, msg, fail))
          => /\ bookings' = bookings
             /\ Len(messages') = Len(messages) + Len(Admins)
             /\ \A a \in 1 .. Len(Admins) :
                   /\ messages'[Len(messages) + a].sender_id = u
                   /\ messages'[Len(messages) + a].receiver_id = Admins[a]]_vars

(* C18: when storing a new reservation fails, nothing is persisted, and the
   failure reaches the caller as a storage failure, a result distinct from the
   one a conflict gives. *)
StorageFailureIsDistinct ==
    [][\A u \in Users, r \in Resources, s \in Times, e \in Times, msg \in BOOLEAN :
          (s < e /\ ~Blocked(bookings, r, s, e)
                 /\ CreateBooking(u, r, s, e, msg, TRUE))
          => /\ bookings' = bookings
             /\ last'.conflict = "false"
             /\ last'.dal # "none"]_vars

\* A booking id that no row has: below the first, or after the last.
UnknownIds == {0, Len(bookings) + 1}

(* C19: update_booking_status on a booking id that no row has returns None (not
   found) and changes no reservation, whatever the new status. *)
UnknownIdChangesNothing ==
    \A id \in UnknownIds, st \in ActiveStatuses \cup InactiveStatuses,
       fail \in BOOLEAN :
        LET res == DalUpdateBookingStatus(bookings, id, st, fail)
        IN  /\ ~res.ok
            /\ ~res.found
            /\ res.store = bookings

\* An approve or cancel request for an id that no row has has just failed while
\* an active reservation exists.
UnknownIdReached ==
    /\ last.op \in {"approve", "cancel"}
    /\ last.dal = "not_found"
    /\ last.outcome = "failed"
    /\ \E i \in DOMAIN bookings : IsActive(bookings[i])

\* The reservations of resource r, in the order of the table.
ReservationsOf(store, r) == SelectSeq(store, LAMBDA b : b.resource_id = r)

\* The outcome of every request on a resource is the outcome it has when
\* only the reservations of that resource are in the table.
OutcomeDependsOnOwnResource ==
    \A r \in Resources, s \in Times, e \in Times :
        /\ CheckForConflict(bookings, r, s, e)
             = CheckForConflict(ReservationsOf(bookings, r), r, s, e)
        /\ RouteCreateBooking(bookings, messages, 1, r, s, e, FALSE, FALSE).last
             = RouteCreateBooking(ReservationsOf(bookings, r), messages,
                                  1, r, s, e, FALSE, FALSE).last

\* A step of a request handler leaves every stored reservation as it is, and a
\* reservation it adds is one of the resource it was asked for.
OtherReservationsKept ==
    \A p \in Procs :
        (pc[p].phase = "checked" /\ pc'[p].phase = "idle")
        => /\ \A i \in DOMAIN bookings : bookings'[i] = bookings[i]
           /\ Len(bookings') <= Len(bookings) + 1
           /\ Len(bookings') = Len(bookings) + 1
                => bookings'[Len(bookings')].resource_id = pc[p].resource

(* C20: requests on different resources are independent: the outcome of a
   booking request on resource r depends only on the reservations of r, and the
   request neither counts a reservation of another resource as a conflict nor
   changes it, however the handlers interleave. *)
ResourcesAreIndependent ==
    /\ []OutcomeDependsOnOwnResource
    /\ [][/\ OtherReservationsKept
          /\ \A i \in DOMAIN bookings : bookings'[i] = bookings[i]]_vars

\* Two handlers have created active reservations of different resources for
\* overlapping windows.
OverlapAcrossResourcesReached ==
    /\ last.outcome = "created"
    /\ \E i \in DOMAIN bookings, j \in DOMAIN bookings :
          /\ bookings[i].resource_id # bookings[j].resource_id
          /\ IsActive(bookings[i]) /\ IsActive(bookings[j])
          /\ Overlap(bookings[i].start, bookings[i].end,
                     bookings[j].start, bookings[j].end)

(* C21: a reservation becomes cancelled only through its own requester or a
   staff or admin user: a cancel request of any other user leaves the
   reservation's status unchanged. *)
CancelOnlyByRequesterOrStaff ==
    [][\A u \in Users, id \in BookingIdInputs, fail \in BOOLEAN :
          (/\ CancelBooking(u, id, fail)
           /\ id \in DOMAIN bookings
           /\ bookings[id].requester_id # u
           /\ Role(u) \notin {"staff", "admin"})
          => bookings'[id].status = bookings[id].status]_vars

\* An email after trimming and lower-casing.
TrimLower(email) == Lower(Strip(email))

(* C22: no two users share an email address: after any sequence of
   registrations, the emails of the users table differ after trimming and
   lower-casing, and create_user with an email that so equals an existing
   user's returns no user and leaves the users table unchanged. *)
EmailsAreUnique ==
    /\ \A i \in DOMAIN accounts, j \in DOMAIN accounts :
          i # j => TrimLower(accounts[i].email) # TrimLower(accounts[j].email)
    /\ \A email \in EmailInputs, role \in RoleInputs,
          fail \in {"no", "integrity", "other"} :
          (\E i \in DOMAIN accounts :
              TrimLower(accounts[i].email) = TrimLower(email))
          => LET res == CreateUser(accounts, email, role, fail)
             IN  res.user = "none" /\ res.table = accounts

\* A registration with the email of a registered user has just been refused.
DuplicateEmailRefusedReached ==
    /\ last.op = "register"
    /\ last.conflict = "true"
    /\ last.dal = "none"
    /\ Len(accounts) > Cardinality(Users)

(* C23: creating a booking, approving, cancelling, joining a waitlist and
   creating a resource require an authenticated user: a request of a client
   that is not logged in is redirected to login and changes no reservation,
   waitlist entry or resource. *)
AnonymousChangesNothing ==
    [][(\/ \E r \in ResourceIdInputs, s \in Times, e \in Times :
              CreateBookingRequest(Anonymous, r, s, e, FALSE, FALSE)
        \/ \E id \in BookingIdInputs :
              \/ ApproveBookingRequest(Anonymous, id, FALSE)
              \/ CancelBookingRequest(Anonymous, id, FALSE)
        \/ \E r \in ResourceIdInputs : JoinWaitlistRequest(Anonymous, r, FALSE)
        \/ \E st \in ResourceStatuses, ty \in BookingTypes :
              CreateResourceRequest(Anonymous, st, ty))
       => /\ last'.outcome = "login"
          /\ UNCHANGED <<bookings, waitlist, resources, messages>>]_vars

\* A client that is not logged in has just been sent to login while
\* reservations and waitlist entries exist.
AnonymousRedirectedReached ==
    /\ last.outcome = "login"
    /\ bookings # << >>
    /\ waitlist # {}

\* The ratings of resource r, one per review, as a function of the review.
RatingsOf(table, r) ==
    [i \in {j \in DOMAIN table : table[j].resource_id = r} |-> table[i].rating]

\* The reviews of resource r alone.
ReviewsOf(table, r) == SelectSeq(table, LAMBDA v : v.resource_id = r)

(* C24: get_resource_rating_stats gives all zeros for a resource without
   reviews; otherwise total_reviews is the number of the resource's reviews,
   min_rating and max_rating are their smallest and largest rating, avg_rating
   is their mean whenever the mean has at most one decimal digit; reviews of
   other resources do not affect the result. *)
RatingStatsAreRight ==
    \A r \in ResourceIdInputs :
        LET st == GetResourceRatingStats(reviews, r)
            rt == RatingsOf(reviews, r)
            n == Cardinality(DOMAIN rt)
            sum == SumOfRatings(reviews, DOMAIN rt)
        IN  /\ n = 0 => st = [total_reviews |-> 0, avg_tenths |-> 0,
                              min_rating |-> 0, max_rating |-> 0]
            /\ n > 0 =>
                  /\ st.total_reviews = n
                  /\ \E i \in DOMAIN rt : rt[i] = st.min_rating
                  /\ \E i \in DOMAIN rt : rt[i] = st.max_rating
                  /\ \A i \in DOMAIN rt :
                        st.min_rating <= rt[i] /\ rt[i] <= st.max_rating
                  /\ (10 * sum) % n = 0 => st.avg_tenths * n = 10 * sum
            /\ st = GetResourceRatingStats(ReviewsOf(reviews, r), r)
            /\ (last.op = "rating_stats" /\ stats.total_reviews > 0)
                  => \E x \in Resources : stats = GetResourceRatingStats(reviews, x)

\* The statistics of a resource with two reviews of mean 1.5 have been taken
\* while another resource has a review too.
RatingStatsReached ==
    /\ last.op = "rating_stats"
    /\ stats = [total_reviews |-> 2, avg_tenths |-> 15,
                min_rating |-> 1, max_rating |-> 2]
    /\ Len(reviews) = 3

(* C25: approve_booking by a user whose role is neither staff nor admin
   changes no booking's status; a booking moves to approved through the
   approve route only when the actor is staff or admin. *)
ApproveNeedsStaffOrAdmin ==
    [][\A u \in Users, id \in BookingIdInputs, fail \in BOOLEAN :
          (ApproveBooking(u, id, fail) /\ Role(u) \notin {"staff", "admin"})
          => /\ bookings' = bookings
             /\ last'.outcome = "forbidden"]_vars

\* A student's approve request for a pending booking has just been refused.
ApproveForbiddenReached ==
    /\ last.op = "approve"
    /\ last.outcome = "forbidden"
    /\ \E i \in DOMAIN bookings : bookings[i].status = "pending"

\* C26: the view of a resource's reservations returns exactly the resource's
\* pending and approved reservations, in ascending order of start, and leaves
\* the store as it is. The view is an operator of the store, so it mutates
\* nothing; the statement fails on the rows it returns, which include the
\* cancelled ones.
ViewReturnsActiveRowsOnly ==
    \A r \in ResourceIdInputs :
        LET view == GetBookingsForResource(bookings, r)
        IN  /\ Len(view) = Cardinality({i \in DOMAIN bookings :
                                /\ bookings[i].resource_id = r
                                /\ bookings[i].status \in ActiveStatuses})
            /\ \A i \in DOMAIN view : /\ view[i].resource_id = r
                                      /\ view[i].status \in ActiveStatuses
            /\ \A i, j \in DOMAIN view : i <= j => view[i].start <= view[j].start

\* The rows a and b agree on everything but the status.
SameButStatus(a, b) ==
    /\ a.resource_id = b.resource_id
    /\ a.requester_id = b.requester_id
    /\ a.start = b.start
    /\ a.end = b.end

(* C27: a step that ends an approve or cancel request (last'.op says which
   request a step handled) changes at most the status of the booking it names: that booking keeps its resource, requester and interval, every
   other booking is as before, no booking is added (a cancellation promotes
   nobody from the waitlist), and the waitlist is as before. *)
StatusChangeTouchesTargetOnly ==
    [][last'.op \in {"approve", "cancel"}
          => /\ DOMAIN bookings' = DOMAIN bookings
             /\ \E id \in BookingIdInputs :
                   \A i \in DOMAIN bookings :
                      IF i = id THEN SameButStatus(bookings'[i], bookings[i])
                      ELSE bookings'[i] = bookings[i]
             /\ waitlist' = waitlist
             /\ enrolled' = enrolled]_vars

\* A booking has just been cancelled while another booking of the resource is
\* still active and a user waits for the resource.
CancelledBesideWaitlistReached ==
    /\ last.op = "cancel"
    /\ last.outcome = "ok"
    /\ \E i, j \in DOMAIN bookings : /\ bookings[i].status = "cancelled"
                                     /\ bookings[j].status \in ActiveStatuses
                                     /\ bookings[j].resource_id = bookings[i].resource_id
    /\ \E w \in waitlist : w.resource_id = 2

\* No two pending/approved rows of one resource overlap, and every row of the
\* table has end > start.
WellFormed(store) ==
    /\ \A i \in DOMAIN store : store[i].end > store[i].start
    /\ \A i, j \in DOMAIN store :
          (/\ i # j
           /\ store[i].resource_id = store[j].resource_id
           /\ store[i].status \in ActiveStatuses
           /\ store[j].status \in ActiveStatuses)
          => ~Overlap(store[i].start, store[i].end, store[j].start, store[j].end)

(* C28: with requests handled one at a time and statuses changed only by
   approving a pending booking or cancelling a booking, a create_booking step
   taken from a table that is well formed (no two pending/approved rows of a
   resource overlap, every row has end > start) leaves a well formed table,
   whether the request was admitted or refused. *)
CreateKeepsWellFormed ==
    [][(last'.op = "create" /\ WellFormed(bookings)) => WellFormed(bookings')]_vars

\* A request has just been admitted beside an active booking of its resource.
AdmittedBesideActiveReached ==
    /\ last.op = "create"
    /\ last.outcome = "created"
    /\ WellFormed(bookings)
    /\ \E i \in DOMAIN bookings :
          /\ i # Len(bookings)
          /\ bookings[i].resource_id = bookings[Len(bookings)].resource_id
          /\ bookings[i].status \in ActiveStatuses

\* The table store with the requester of row i replaced by f[i].
WithRequesters(store, f) ==
    [i \in DOMAIN store |-> [store[i] EXCEPT !.requester_id = f[i]]]

\* The table store without its requesters.
WithoutRequesters(store) ==
    [i \in DOMAIN store |-> [store[i] EXCEPT !.requester_id = 0]]

(* C29: the admission outcome does not depend on who asks. For the bookings
   table of any reachable state, any reassignment f of the requesters of its
   rows and any user u, create_booking for u on the reassigned table ends as
   create_booking for user 1 on the table as stored (same conflict check,
   same DAL result, same outcome) and leaves the same rows but for the
   requesters; all runs that differ in requesters only are thus alike, and a
   user's own pending/approved booking blocks as another user's does. *)
OutcomeIgnoresRequester ==
    \A r \in ResourceIdInputs, s \in Times, e \in Times :
        LET a == RouteCreateBooking(bookings, messages, 1, r, s, e, FALSE, FALSE)
            rows == WithoutRequesters(a.bookings)
        IN  \A u \in Users, f \in [DOMAIN bookings -> Users] :
                LET b == RouteCreateBooking(WithRequesters(bookings, f), messages,
                                            u, r, s, e, FALSE, FALSE)
                IN  /\ b.last = a.last
                    /\ WithoutRequesters(b.bookings) = rows

\* User 1, the requester of every booking, has just been refused by the
\* conflict check: the blocking row is the user's own.
BlockedByOwnBookingReached ==
    /\ last.op = "create"
    /\ last.conflict = "true"
    /\ \A i \in DOMAIN bookings : bookings[i].requester_id = 1
    /\ \E i \in DOMAIN bookings : bookings[i].status \in ActiveStatuses

\* The rows of the users table that a registration created: those after the
\* rows present at application start.
RegisteredRows == {i \in DOMAIN accounts : i \notin Users}

(* C30: registration never creates an administrator: after any sequence of
   register requests every user created by registration has role student or
   staff, and the admin users are exactly those present at application
   start. *)
RegistrationMakesNoAdmin ==
    /\ \A i \in RegisteredRows : accounts[i].role \in {"student", "staff"}
    /\ {i \in DOMAIN accounts : accounts[i].role = "admin"}
          = {u \in Users : Role(u) = "admin"}

\* A registration asking for the admin role has just been refused, after
\* other registrations created users.
AdminRoleRefusedReached ==
    /\ last.op = "register"
    /\ last.outcome = "invalid_role"
    /\ RegisteredRows # {}

=========================================================================
